---------------------------- MODULE Spec2Model ----------------------------
(***************************************************************************)
(* Model of src/app.py: the country-name resolver normalize_country, the   *)
(* aggregation helper aggregate_data and the top-to-bottom run of the      *)
(* dashboard script.                                                       *)
(*                                                                         *)
(* Text is a sequence of characters.  An ASCII character is the one-letter *)
(* string holding it; the few non-ASCII code points the resolver treats    *)
(* specially are named tokens.  None is a value that is no text.           *)
(***************************************************************************)
EXTENDS Integers, Sequences, FiniteSets, TLC

VARIABLES
    release,      \* which pycountry data set is installed
    name,         \* normalize_country: the argument
    npc,          \* normalize_country: position in the function body
    clean,        \* normalize_country: local `clean`
    clean_lower,  \* normalize_country: local `clean_lower`
    idx,          \* normalize_country: position of the for loop of line 76
    best_match,   \* normalize_country: local `best_match` (0 is None)
    best_score,   \* normalize_country: local `best_score`
    result,       \* normalize_country: the returned triple
    consulted,    \* normalize_country: the lookups evaluated so far
    pc,           \* script: position of the run
    password,     \* script: the text typed into the password box
    file,         \* script: the uploaded file
    df,           \* script: the table read from the file
    variable,     \* script: the selected column
    is_panel,     \* script: whether the table has a time column
    aggregation_method,
    df_aggregated,
    df_clean,
    unresolved,   \* script: the list of unrecognized countries shown
    rendered,     \* script: the outputs drawn from df_clean
    messages,     \* script: the st.error / st.warning / st.success boxes shown
    ran           \* script: the statements that have run

nvars == <<name, npc, clean, clean_lower, idx, best_match, best_score, result, consulted>>

avars == <<pc, password, file, df, variable, is_panel, aggregation_method, df_aggregated,
           df_clean, unresolved, rendered, messages, ran>>

vars == <<release, nvars, avars>>

---------------------------------------------------------------------------
(* Characters *)

RECURSIVE Chars(_)
Chars(s) ==
    IF Len(s) = 0 THEN <<>> ELSE <<SubSeq(s, 1, 1)>> \o Chars(SubSeq(s, 2, Len(s)))

NBSP == "U+00A0"
ZWSP == "U+200B"
BOM == "U+FEFF"
u_diaeresis == "U+00FC"
U_diaeresis == "U+00DC"
o_circumflex == "U+00F4"
O_circumflex == "U+00D4"
e_acute == "U+00E9"
E_acute == "U+00C9"
comb_diaeresis == "U+0308"
comb_circumflex == "U+0302"
comb_acute == "U+0301"

None == <<"None">>
NaN == <<"NaN">>

UpperCase == Chars("ABCDEFGHIJKLMNOPQRSTUVWXYZ") \o <<U_diaeresis, O_circumflex, E_acute>>
LowerCase == Chars("abcdefghijklmnopqrstuvwxyz") \o <<u_diaeresis, o_circumflex, e_acute>>

\* str.isspace for one character
IsSpace(c) == c \in {" ", "\t", "\n", NBSP}

\* str.lower, one character
LowerChar(c) ==
    IF \E i \in 1..Len(UpperCase) : UpperCase[i] = c
    THEN LowerCase[CHOOSE i \in 1..Len(UpperCase) : UpperCase[i] = c]
    ELSE c

\* str.lower
RECURSIVE Lower(_)
Lower(s) == IF s = <<>> THEN <<>> ELSE <<LowerChar(Head(s))>> \o Lower(Tail(s))

\* unicodedata.normalize("NFKD", .), one character
NFKDChar(c) ==
    CASE c = u_diaeresis -> <<"u", comb_diaeresis>>
      [] c = U_diaeresis -> <<"U", comb_diaeresis>>
      [] c = o_circumflex -> <<"o", comb_circumflex>>
      [] c = O_circumflex -> <<"O", comb_circumflex>>
      [] c = e_acute -> <<"e", comb_acute>>
      [] c = E_acute -> <<"E", comb_acute>>
      [] c = NBSP -> <<" ">>
      [] OTHER -> <<c>>

RECURSIVE NFKD(_)
NFKD(s) == IF s = <<>> THEN <<>> ELSE NFKDChar(Head(s)) \o NFKD(Tail(s))

RECURSIVE LStrip(_)
LStrip(s) == IF s # <<>> /\ IsSpace(Head(s)) THEN LStrip(Tail(s)) ELSE s

RECURSIVE RStrip(_)
RStrip(s) ==
    IF s # <<>> /\ IsSpace(s[Len(s)]) THEN RStrip(SubSeq(s, 1, Len(s) - 1)) ELSE s

\* str.strip
Strip(s) == LStrip(RStrip(s))

\* str.replace(c, by) for a single character c
RECURSIVE Replace(_, _, _)
Replace(s, c, by) ==
    IF s = <<>> THEN <<>>
    ELSE (IF Head(s) = c THEN by ELSE <<Head(s)>>) \o Replace(Tail(s), c, by)

\* " ".join(s.split())
RECURSIVE JoinSplit(_)
JoinSplit(s) ==
    LET t == LStrip(s) IN
    IF t = <<>> THEN <<>>
    ELSE IF Len(t) > 1 /\ IsSpace(t[2])
         THEN LET r == JoinSplit(Tail(t)) IN
              IF r = <<>> THEN <<t[1]>> ELSE <<t[1], " ">> \o r
         ELSE <<t[1]>> \o JoinSplit(Tail(t))

---------------------------------------------------------------------------
(* normalize_country: cleaning, lines 20-26 and 57 *)

\* the test of line 20 without the strip()
IsBlankNoStrip(n) == n = NaN \/ n = <<>>

\* line 20: pd.isna(name) or str(name).strip() == ""
IsBlank(n) == n = NaN \/ Strip(n) = <<>>

\* lines 24-26
Clean(n) ==
    LET c1 == Strip(NFKD(n))
        c2 == Replace(Replace(Replace(c1, ZWSP, <<>>), BOM, <<>>), NBSP, <<" ">>)
    IN  JoinSplit(c2)

---------------------------------------------------------------------------
(* normalize_country: the override table, lines 29-55 *)

overrides ==
    <<
       <<Chars("turkey"), "TUR">>,
       <<Chars("t") \o <<u_diaeresis>> \o Chars("rkiye"), "TUR">>,
       <<Chars("turkiye"), "TUR">>,
       <<Chars("usa"), "USA">>,
       <<Chars("us"), "USA">>,
       <<Chars("united states"), "USA">>,
       <<Chars("uk"), "GBR">>,
       <<Chars("united kingdom"), "GBR">>,
       <<Chars("britain"), "GBR">>,
       <<Chars("south korea"), "KOR">>,
       <<Chars("korea"), "KOR">>,
       <<Chars("rok"), "KOR">>,
       <<Chars("north korea"), "PRK">>,
       <<Chars("dprk"), "PRK">>,
       <<Chars("russia"), "RUS">>,
       <<Chars("russian federation"), "RUS">>,
       <<Chars("ussr"), "RUS">>,
       <<Chars("china"), "CHN">>,
       <<Chars("prc"), "CHN">>,
       <<Chars("vietnam"), "VNM">>,
       <<Chars("viet nam"), "VNM">>,
       <<Chars("czech republic"), "CZE">>,
       <<Chars("czechia"), "CZE">>,
       <<Chars("uae"), "ARE">>,
       <<Chars("united arab emirates"), "ARE">>,
       <<Chars("drc"), "COD">>,
       <<Chars("dr congo"), "COD">>,
       <<Chars("democratic republic of the congo"), "COD">>,
       <<Chars("congo"), "COG">>,
       <<Chars("republic of the congo"), "COG">>,
       <<Chars("ivory coast"), "CIV">>,
       <<Chars("cote d'ivoire"), "CIV">>,
       <<Chars("myanmar"), "MMR">>,
       <<Chars("burma"), "MMR">>,
       <<Chars("palestine"), "PSE">>,
       <<Chars("palestinian territory"), "PSE">>,
       <<Chars("tanzania"), "TZA">>,
       <<Chars("united republic of tanzania"), "TZA">>,
       <<Chars("bolivia"), "BOL">>,
       <<Chars("plurinational state of bolivia"), "BOL">>,
       <<Chars("venezuela"), "VEN">>,
       <<Chars("bolivarian republic of venezuela"), "VEN">>,
       <<Chars("iran"), "IRN">>,
       <<Chars("islamic republic of iran"), "IRN">>,
       <<Chars("syria"), "SYR">>,
       <<Chars("syrian arab republic"), "SYR">>,
       <<Chars("laos"), "LAO">>,
       <<Chars("lao people's democratic republic"), "LAO">>,
       <<Chars("moldova"), "MDA">>,
       <<Chars("republic of moldova"), "MDA">>,
       <<Chars("macedonia"), "MKD">>,
       <<Chars("north macedonia"), "MKD">>,
       <<Chars("netherlands"), "NLD">>,
       <<Chars("holland"), "NLD">>,
       <<Chars("swaziland"), "SWZ">>,
       <<Chars("eswatini"), "SWZ">>
    >>

OverrideKeys == {overrides[i][1] : i \in 1..Len(overrides)}

\* overrides[key]
OverrideCode(key) ==
    Chars(overrides[CHOOSE i \in 1..Len(overrides) : overrides[i][1] = key][2])

---------------------------------------------------------------------------
(* pycountry.countries: the entries the override table names and a few     *)
(* more, in the data file's order (by alpha_3).  An attribute an entry     *)
(* does not have is <<>>.  The two releases differ in the name of TUR.     *)

Country(a2, a3, num, nm, official, common) ==
    [alpha_2 |-> Chars(a2), alpha_3 |-> Chars(a3), numeric |-> Chars(num),
     name |-> nm, official_name |-> official, common_name |-> common]

Turkiye == Chars("T") \o <<u_diaeresis>> \o Chars("rkiye")
CoteDIvoire == Chars("C") \o <<o_circumflex>> \o Chars("te d'Ivoire")
Reunion == Chars("R") \o <<e_acute>> \o Chars("union")

CountriesWith(turkey) ==
    <<
      Country("AE", "ARE", "784", Chars("United Arab Emirates"), <<>>, <<>>),
      Country("BO", "BOL", "068", Chars("Bolivia, Plurinational State of"),
              Chars("Plurinational State of Bolivia"), Chars("Bolivia")),
      Country("CN", "CHN", "156", Chars("China"), Chars("People's Republic of China"), <<>>),
      Country("CI", "CIV", "384", CoteDIvoire, Chars("Republic of ") \o CoteDIvoire, <<>>),
      Country("CD", "COD", "180", Chars("Congo, The Democratic Republic of the"), <<>>, <<>>),
      Country("CG", "COG", "178", Chars("Congo"), Chars("Republic of the Congo"), <<>>),
      Country("CZ", "CZE", "203", Chars("Czechia"), Chars("Czech Republic"), <<>>),
      Country("FR", "FRA", "250", Chars("France"), Chars("French Republic"), <<>>),
      Country("GB", "GBR", "826", Chars("United Kingdom"),
              Chars("United Kingdom of Great Britain and Northern Ireland"), <<>>),
      Country("IR", "IRN", "364", Chars("Iran, Islamic Republic of"),
              Chars("Islamic Republic of Iran"), <<>>),
      Country("KR", "KOR", "410", Chars("Korea, Republic of"), <<>>, <<>>),
      Country("LA", "LAO", "418", Chars("Lao People's Democratic Republic"), <<>>, <<>>),
      Country("MD", "MDA", "498", Chars("Moldova, Republic of"),
              Chars("Republic of Moldova"), Chars("Moldova")),
      Country("MK", "MKD", "807", Chars("North Macedonia"),
              Chars("Republic of North Macedonia"), <<>>),
      Country("MM", "MMR", "104", Chars("Myanmar"), Chars("Republic of Myanmar"), <<>>),
      Country("NL", "NLD", "528", Chars("Netherlands"),
              Chars("Kingdom of the Netherlands"), <<>>),
      Country("KP", "PRK", "408", Chars("Korea, Democratic People's Republic of"),
              Chars("Democratic People's Republic of Korea"), <<>>),
      Country("PS", "PSE", "275", Chars("Palestine, State of"),
              Chars("the State of Palestine"), <<>>),
      Country("RE", "REU", "638", Reunion, <<>>, <<>>),
      Country("RU", "RUS", "643", Chars("Russian Federation"), <<>>, <<>>),
      Country("SK", "SVK", "703", Chars("Slovakia"), Chars("Slovak Republic"), <<>>),
      Country("SI", "SVN", "705", Chars("Slovenia"), Chars("Republic of Slovenia"), <<>>),
      Country("SZ", "SWZ", "748", Chars("Eswatini"), Chars("Kingdom of Eswatini"), <<>>),
      Country("SY", "SYR", "760", Chars("Syrian Arab Republic"), <<>>, <<>>),
      turkey,
      Country("TZ", "TZA", "834", Chars("Tanzania, United Republic of"),
              Chars("United Republic of Tanzania"), Chars("Tanzania")),
      Country("US", "USA", "840", Chars("United States"),
              Chars("United States of America"), <<>>),
      Country("VE", "VEN", "862", Chars("Venezuela, Bolivarian Republic of"),
              Chars("Bolivarian Republic of Venezuela"), Chars("Venezuela")),
      Country("VN", "VNM", "704", Chars("Viet Nam"),
              Chars("Socialist Republic of Viet Nam"), Chars("Vietnam"))
    >>

\* pycountry 22.3.5 and earlier
CountriesOld ==
    CountriesWith(Country("TR", "TUR", "792", Chars("Turkey"),
                          Chars("Republic of Turkey"), <<>>))

\* pycountry 23.12.7 and later
CountriesNew ==
    CountriesWith(Country("TR", "TUR", "792", Turkiye,
                          Chars("Republic of ") \o Turkiye, <<>>))

\* a data set without the SWZ entry, where get(alpha_3="SWZ") finds nothing:
\* the case the try/except of lines 59-63 is there for
CountriesTrimmed == SelectSeq(CountriesOld, LAMBDA c : c.alpha_3 # Chars("SWZ"))

Countries(rel) ==
    CASE rel = "old" -> CountriesOld
      [] rel = "new" -> CountriesNew
      [] rel = "trimmed" -> CountriesTrimmed

Releases == {"old", "new", "trimmed"}

\* a return statement that fills in the code only
TripleCodeOnly(country) == <<country.alpha_3, None, None>>

\* the triple every return statement of normalize_country builds
Triple(country) == <<country.alpha_3, country.alpha_2, country.name>>

Unresolved == <<None, None, None>>

\* pycountry.countries.get(alpha_3=code): the index of the entry, 0 for None
GetAlpha3(rel, code) ==
    LET cs == Countries(rel) IN
    IF \E i \in 1..Len(cs) : cs[i].alpha_3 = code
    THEN CHOOSE i \in 1..Len(cs) : cs[i].alpha_3 = code
    ELSE 0

\* the attributes pycountry indexes, in the order lookup tries them
LookupFields(c) ==
    <<c.alpha_2, c.alpha_3, c.name, c.numeric, c.official_name, c.common_name>>

RECURSIVE LowerEach(_)
LowerEach(ts) == IF ts = <<>> THEN <<>> ELSE <<Lower(Head(ts))>> \o LowerEach(Tail(ts))

RECURSIVE IndexOf(_)
IndexOf(cs) ==
    IF cs = <<>> THEN <<>> ELSE <<LowerEach(LookupFields(Head(cs)))>> \o IndexOf(Tail(cs))

\* pycountry lower-cases every indexed attribute when it loads the data
IndexOld == IndexOf(CountriesOld)
IndexNew == IndexOf(CountriesNew)
IndexTrimmed == IndexOf(CountriesTrimmed)

Index(rel) ==
    CASE rel = "old" -> IndexOld
      [] rel = "new" -> IndexNew
      [] rel = "trimmed" -> IndexTrimmed

\* pycountry.countries.lookup(value): case-insensitive match of a whole
\* attribute, the attributes tried in order; the index of the entry, 0 for
\* LookupError
Lookup(rel, value) ==
    LET v == Lower(value)
        ix == Index(rel)
        Hit(f) == {i \in 1..Len(ix) : ix[i][f] = v}
        fs == {f \in 1..Len(ix[1]) : Hit(f) # {}}
    IN  IF v = <<>> \/ fs = {} THEN 0
        ELSE LET f == CHOOSE g \in fs : \A h \in fs : g <= h
                 hit == Hit(f)
             IN  CHOOSE i \in hit : \A j \in hit : i >= j

---------------------------------------------------------------------------
(* fuzzywuzzy.fuzz.ratio *)

Max(a, b) == IF a >= b THEN a ELSE b

\* one row of the longest-common-subsequence table: prev is the row of the
\* characters before ch, cur the part of this row already filled in
RECURSIVE LcsRow(_, _, _, _)
LcsRow(prev, ch, b, cur) ==
    LET j == Len(cur) IN
    IF j > Len(b) THEN cur
    ELSE LcsRow(prev, ch, b,
                Append(cur, IF ch = b[j] THEN prev[j] + 1
                            ELSE Max(prev[j + 1], cur[j])))

RECURSIVE LcsRows(_, _, _)
LcsRows(a, b, prev) ==
    IF a = <<>> THEN prev[Len(prev)]
    ELSE LET row == LcsRow(prev, Head(a), b, <<0>>) IN
         IF row = prev THEN LcsRows(Tail(a), b, prev) ELSE LcsRows(Tail(a), b, row)

RECURSIVE Zeros(_)
Zeros(n) == IF n = 0 THEN <<>> ELSE <<0>> \o Zeros(n - 1)

\* the number of matched characters M of the two strings
Matches(a, b) == LcsRows(a, b, Zeros(Len(b) + 1))

\* int(round(num / den)), Python's round: halves go to the even neighbour
IntRound(num, den) ==
    LET q == num \div den
        r == num % den
    IN  IF 2 * r > den THEN q + 1
        ELSE IF 2 * r < den THEN q
        ELSE IF q % 2 = 0 THEN q ELSE q + 1

\* fuzz.ratio(s1, s2) = int(round(100 * 2M / T)), 0 when either is empty
ratio(s1, s2) ==
    IF s1 = <<>> \/ s2 = <<>> THEN 0
    ELSE IF s1 = s2 THEN 100
    ELSE IntRound(200 * Matches(s1, s2), Len(s1) + Len(s2))

---------------------------------------------------------------------------
(* normalize_country: the fuzzy scan, lines 73-92 *)

ScoreThreshold == 80

\* line 84: hasattr(country, 'common_name')
HasCommonName(country) == country.common_name # <<>>

\* lines 79 and 86 with >= in place of >
BetterOrEqual(score, best) == score >= best

\* a later score replaces the best one, lines 79 and 86
Better(score, best) == score > best

\* one iteration of the for loop of line 76 on the pair <<best_match, best_score>>
FuzzyStep(rel, cl, i, best) ==
    LET country == Countries(rel)[i]
        s1 == ratio(cl, Lower(country.name))
        b1 == IF Better(s1, best[2]) THEN <<i, s1>> ELSE best
        s2 == ratio(cl, Lower(country.common_name))
    IN  IF HasCommonName(country) /\ Better(s2, b1[2]) THEN <<i, s2>> ELSE b1

\* the loop from entry i on
RECURSIVE FuzzyScan(_, _, _, _)
FuzzyScan(rel, cl, i, best) ==
    IF i > Len(Countries(rel)) THEN best
    ELSE LET b == FuzzyStep(rel, cl, i, best) IN
         IF b = best THEN FuzzyScan(rel, cl, i + 1, best)
         ELSE FuzzyScan(rel, cl, i + 1, b)

\* line 91 without the threshold, and with > in place of >=
AcceptAnyMatch(best) == best[1] # 0

AcceptStrict(best) == best[1] # 0 /\ best[2] > ScoreThreshold

\* line 91: if best_match and best_score >= 80
Accept(best) == best[1] # 0 /\ best[2] >= ScoreThreshold

\* lines 91-94
FuzzyResult(rel, best) ==
    IF Accept(best) THEN Triple(Countries(rel)[best[1]]) ELSE Unresolved

---------------------------------------------------------------------------
(* normalize_country as a function of its argument, lines 15-94 *)

\* line 57 without the lower()
CleanLowerForgotten(c) == c

\* line 57
CleanLower(c) == Lower(c)

\* line 58 with the override table left out
OverrideHitNever(cl) == FALSE

\* line 58
OverrideHit(cl) == cl \in OverrideKeys

\* lines 59-63: the entry the override names, 0 when get() returns None
\* and the attribute access raises
OverrideEntry(rel, cl) == GetAlpha3(rel, OverrideCode(cl))

\* lines 58-94 on the cleaned text c and its lower-cased form cl: the override
\* entry o, else the exact match e, else the best fuzzy match
Resolved(rel, cl, o, e) ==
    IF o # 0 THEN Triple(Countries(rel)[o])
    ELSE IF e # 0 THEN Triple(Countries(rel)[e])
    ELSE FuzzyResult(rel, FuzzyScan(rel, cl, 1, <<0, 0>>))

FromClean(rel, c, cl) ==
    Resolved(rel, cl, IF OverrideHit(cl) THEN OverrideEntry(rel, cl) ELSE 0, Lookup(rel, c))

CleanThenResolve(rel, c) == FromClean(rel, c, CleanLower(c))

normalize_country(rel, n) ==
    IF IsBlank(n) THEN Unresolved ELSE CleanThenResolve(rel, Clean(n))


---------------------------------------------------------------------------
(* The dashboard script, lines 155-606: one run from top to bottom.  A     *)
(* table is a record of its country column's header, whether it has a     *)
(* 'year' column, and its rows; a cell of the 'value' column is a number,  *)
(* an empty cell (NaN) or a text.                                          *)

CORRECT_PASSWORD == "1992"

\* a number is the fraction v / den in lowest terms
Num(v) == [kind |-> "num", v |-> v, den |-> 1]
NaNCell == [kind |-> "nan", v |-> 0, den |-> 1]
TextCell == [kind |-> "text", v |-> 0, den |-> 1]

Row(c, y, v) == [country |-> c, year |-> y, value |-> v]

MaxRows == 3

\* the rows an uploaded file is made of
CandidateRows ==
    {Row(Chars("USA"), 2020, Num(10)),
     Row(Chars("U.S."), 2020, Num(20)),
     Row(Chars("Turkiye"), 2021, Num(5)),
     Row(Chars("United States"), 2021, Num(20)),
     Row(Chars("USA"), 2021, TextCell),
     Row(NaN, 2020, NaNCell)}

RECURSIVE Tables(_)
Tables(n) ==
    IF n = 0 THEN {<<>>}
    ELSE LET shorter == Tables(n - 1)
         IN  shorter \cup {Append(t, r) : t \in shorter, r \in CandidateRows}

\* a table whose country column holds a text, or no row at all: pandas reads
\* a column of empty cells only as float64, not as the object column of names
HasText(t) == t = <<>> \/ \E i \in 1..Len(t) : t[i].country # NaN

Headers == {"country", "Country", "nation"}

NoFile == [readable |-> FALSE, header |-> "", has_year |-> FALSE, rows |-> <<>>, present |-> FALSE]

Files ==
    {[readable |-> FALSE, header |-> "country", has_year |-> FALSE, rows |-> <<>>,
      present |-> TRUE]}
        \cup {[readable |-> TRUE, header |-> h, has_year |-> y, rows |-> t, present |-> TRUE] :
                  h \in Headers, y \in BOOLEAN, t \in {x \in Tables(MaxRows) : HasText(x)}}

Passwords == {"", "1992", "0000"}

\* str.lower of a column header
LowerHeader(h) == IF h = "Country" THEN "country" ELSE h

\* df.columns
Columns(t) == <<t.header>> \o (IF t.has_year THEN <<"year">> ELSE <<>>) \o <<"value">>

Range(s) == {s[i] : i \in 1..Len(s)}

\* the dtype pandas gives a column
Dtype(t, col) ==
    IF t.rows = <<>> THEN "object"
    ELSE IF col = "year" THEN "int64"
    ELSE IF col = "value"
         THEN IF \E i \in 1..Len(t.rows) : t.rows[i].value.kind = "text" THEN "object"
              ELSE IF \E i \in 1..Len(t.rows) : t.rows[i].value.kind = "nan" THEN "float64"
              ELSE "int64"
    ELSE "object"

\* lines 209-210
NumericCols(t) ==
    SelectSeq(Columns(t), LAMBDA col : Dtype(t, col) \in {"float64", "int64"}
                                           /\ col \notin {"iso3", "iso2_label"})

\* line 205
TimeCols(t) ==
    SelectSeq(Columns(t), LAMBDA col : LowerHeader(col) \in {"year", "time", "date", "period"})

\* the cell of a row in the selected column
Cell(r, column) == IF column = "year" THEN Num(r.year) ELSE r.value

AppTexts == {r.country : r \in CandidateRows}

\* normalize_country on the texts the uploaded tables hold
Resolutions == [rel \in Releases |-> [t \in AppTexts |-> normalize_country(rel, t)]]

Resolve(rel, t) == Resolutions[rel][t]

---------------------------------------------------------------------------
(* aggregate_data, lines 113-150 *)

\* code-point order of the characters of the uploaded texts
CodeOrder == Chars(" '.,0123456789ABCDEFGHIJKLMNOPQRSTUVWXYZabcdefghijklmnopqrstuvwxyz")

Rank(c) == CHOOSE i \in 1..Len(CodeOrder) : CodeOrder[i] = c

\* str.__lt__
RECURSIVE TextLess(_, _)
TextLess(a, b) ==
    IF b = <<>> THEN FALSE
    ELSE IF a = <<>> THEN TRUE
    ELSE IF Head(a) = Head(b) THEN TextLess(Tail(a), Tail(b))
    ELSE Rank(Head(a)) < Rank(Head(b))

RECURSIVE Sorted(_)
Sorted(keys) ==
    IF keys = {} THEN <<>>
    ELSE LET k == CHOOSE x \in keys : \A y \in keys \ {x} : TextLess(x, y)
         IN  <<k>> \o Sorted(keys \ {k})

\* the groups of df.groupby('country'): the distinct keys, sorted, a NaN
\* key dropped
GroupKeys(rows) == Sorted({rows[i].country : i \in 1..Len(rows)} \ {NaN})

\* the numbers of one group in the selected column, NaN cells skipped
GroupNumbers(rows, key, column) ==
    LET cells == SelectSeq(rows, LAMBDA r : r.country = key /\ Cell(r, column).kind = "num")
    IN  [i \in 1..Len(cells) |-> Cell(cells[i], column).v]

RECURSIVE SumSeq(_)
SumSeq(s) == IF s = <<>> THEN 0 ELSE Head(s) + SumSeq(Tail(s))

RECURSIVE MaxSeq(_)
MaxSeq(s) == IF Len(s) = 1 THEN Head(s) ELSE Max(Head(s), MaxSeq(Tail(s)))

RECURSIVE Gcd(_, _)
Gcd(a, b) == IF b = 0 THEN a ELSE Gcd(b, a % b)

Fraction(n, d) == [kind |-> "num", v |-> n \div Gcd(n, d), den |-> d \div Gcd(n, d)]

\* 'sum', 'mean' and 'max' of a group
Reduce(how, numbers) ==
    CASE how = "sum" -> Num(SumSeq(numbers))
      [] how = "mean" -> IF numbers = <<>> THEN NaNCell
                         ELSE Fraction(SumSeq(numbers), Len(numbers))
      [] how = "max" -> IF numbers = <<>> THEN NaNCell ELSE Num(MaxSeq(numbers))

AggRow(c, v) == [country |-> c, display |-> v]

\* lines 117-143: one row per group
GroupBy(rows, column, how) ==
    LET keys == GroupKeys(rows)
    IN  [i \in 1..Len(keys) |-> AggRow(keys[i], Reduce(how, GroupNumbers(rows, keys[i], column)))]

\* line 148: the latest year of a group
LatestYear(rows, key) ==
    MaxSeq(LET g == SelectSeq(rows, LAMBDA r : r.country = key)
           IN  [i \in 1..Len(g) |-> g[i].year])

RECURSIVE Concat(_)
Concat(ss) == IF ss = <<>> THEN <<>> ELSE Head(ss) \o Concat(Tail(ss))

\* lines 147-149: every row of df in its group's latest year
LatestRows(rows, column) ==
    LET keys == GroupKeys(rows)
        Of(key) == SelectSeq(rows, LAMBDA r : r.country = key /\ r.year = LatestYear(rows, key))
    IN  Concat([i \in 1..Len(keys) |->
                   [j \in 1..Len(Of(keys[i])) |->
                       AggRow(keys[i], Cell(Of(keys[i])[j], column))]])

Methods == {"Total Sum", "Average", "Maximum Value", "Latest Year"}

aggregate_data(rows, column, method) ==
    CASE method = "Total Sum" -> GroupBy(rows, column, "sum")
      [] method = "Average" -> GroupBy(rows, column, "mean")
      [] method = "Maximum Value" -> GroupBy(rows, column, "max")
      [] method = "Latest Year" -> LatestRows(rows, column)

\* lines 242-244 and 255-257: the three columns taken from the triple n
Coded(r, n) ==
    [country |-> r.country, display |-> r.display,
     iso3 |-> n[1], iso2_label |-> n[2], country_name_official |-> n[3]]

WithCodes(rel, r) == Coded(r, Resolve(rel, r.country))

Normalized(rel, rows) == [i \in 1..Len(rows) |-> WithCodes(rel, rows[i])]

\* the table kept whole, nothing dropped
DropNaIso3Forgotten(rows) == rows

\* df.dropna(subset=["iso3"])
DropNaIso3(rows) == SelectSeq(rows, LAMBDA r : r.iso3 # None)

\* line 263: df_clean[df_clean["iso3"].isna()]["country"].unique().tolist()
RECURSIVE Unique(_)
Unique(s) ==
    IF s = <<>> THEN <<>>
    ELSE LET u == Unique(SubSeq(s, 1, Len(s) - 1))
         IN  IF s[Len(s)] \in Range(u) THEN u ELSE Append(u, s[Len(s)])

UnresolvedOf(rows) ==
    LET bad == SelectSeq(rows, LAMBDA r : r.iso3 = None)
    IN  Unique([i \in 1..Len(bad) |-> bad[i].country])

---------------------------------------------------------------------------
(* The script's run, statement by statement.  pc names the statement about *)
(* to run; "stopped" is st.stop(), "end" the end of the script.            *)

Say(msg) == messages' = Append(messages, msg)

\* lines 99-108 and 155
CheckPassword ==
    /\ pc = "password"
    /\ \E p \in Passwords :
           /\ password' = p
           /\ IF p = CORRECT_PASSWORD
              THEN /\ pc' = "upload"
                   /\ UNCHANGED messages
              ELSE /\ pc' = "end"
                   /\ IF p # "" THEN Say("incorrect_password") ELSE UNCHANGED messages
    /\ ran' = ran \cup {"password"}
    /\ UNCHANGED <<file, df, variable, is_panel, aggregation_method, df_aggregated,
                   df_clean, unresolved, rendered>>
    /\ UNCHANGED <<release, nvars>>

\* lines 173-176
Upload ==
    /\ pc = "upload"
    /\ \E f \in Files \cup {NoFile} :
           /\ file' = f
           /\ pc' = IF f.present THEN "load" ELSE "end"
    /\ ran' = ran \cup {"upload"}
    /\ UNCHANGED <<password, df, variable, is_panel, aggregation_method, df_aggregated,
                   df_clean, unresolved, rendered, messages>>
    /\ UNCHANGED <<release, nvars>>

\* lines 178-185
LoadFile ==
    /\ pc = "load"
    /\ IF file.readable
       THEN /\ df' = [header |-> file.header, has_year |-> file.has_year, rows |-> file.rows]
            /\ pc' = "find_country"
            /\ UNCHANGED messages
       ELSE /\ Say("error_loading_file")
            /\ pc' = "stopped"
            /\ UNCHANGED df
    /\ ran' = ran \cup {"load"}
    /\ UNCHANGED <<password, file, variable, is_panel, aggregation_method, df_aggregated,
                   df_clean, unresolved, rendered>>
    /\ UNCHANGED <<release, nvars>>

\* lines 188-202 without the st.stop() of line 196
FindCountryColumnNoStop ==
    /\ pc = "find_country"
    /\ IF \E col \in Range(Columns(df)) : LowerHeader(col) = "country"
       THEN /\ df' = [df EXCEPT !.header = "country"]
            /\ Say("loaded")
       ELSE /\ Say("no_country_column")
            /\ UNCHANGED df
    /\ pc' = "select_variable"
    /\ ran' = ran \cup {"find_country"}
    /\ UNCHANGED <<password, file, variable, is_panel, aggregation_method, df_aggregated,
                   df_clean, unresolved, rendered>>
    /\ UNCHANGED <<release, nvars>>

\* lines 188-202
FindCountryColumn ==
    /\ pc = "find_country"
    /\ IF \E col \in Range(Columns(df)) : LowerHeader(col) = "country"
       THEN /\ df' = [df EXCEPT !.header = "country"]
            /\ Say("loaded")
            /\ pc' = "select_variable"
       ELSE /\ Say("no_country_column")
            /\ pc' = "stopped"
            /\ UNCHANGED df
    /\ ran' = ran \cup {"find_country"}
    /\ UNCHANGED <<password, file, variable, is_panel, aggregation_method, df_aggregated,
                   df_clean, unresolved, rendered>>
    /\ UNCHANGED <<release, nvars>>

\* lines 205-216
SelectVariable ==
    /\ pc = "select_variable"
    /\ is_panel' = (TimeCols(df) # <<>>)
    /\ IF NumericCols(df) = <<>>
       THEN /\ Say("no_numeric_variables")
            /\ pc' = "stopped"
            /\ UNCHANGED variable
       ELSE /\ \E v \in Range(NumericCols(df)) : variable' = v
            /\ pc' = IF TimeCols(df) # <<>> THEN "aggregate" ELSE "normalize"
            /\ UNCHANGED messages
    /\ ran' = ran \cup {"select_variable"}
    /\ UNCHANGED <<password, file, df, aggregation_method, df_aggregated,
                   df_clean, unresolved, rendered>>
    /\ UNCHANGED <<release, nvars>>

\* lines 218-239
Aggregate ==
    /\ pc = "aggregate"
    /\ \E m \in Methods :
           /\ aggregation_method' = m
           /\ df_aggregated' = aggregate_data(df.rows, variable, m)
    /\ Say("panel_data_detected")
    /\ pc' = "normalize"
    /\ ran' = ran \cup {"aggregate"}
    /\ UNCHANGED <<password, file, df, variable, is_panel, df_clean, unresolved, rendered>>
    /\ UNCHANGED <<release, nvars>>

\* lines 241-247
NormalizePanel ==
    /\ pc = "normalize"
    /\ is_panel
    /\ df_aggregated' = Normalized(release, df_aggregated)
    /\ df_clean' = DropNaIso3(df_aggregated')
    /\ pc' = "report"
    /\ ran' = ran \cup {"normalize"}
    /\ UNCHANGED <<password, file, df, variable, is_panel, aggregation_method,
                   unresolved, rendered, messages>>
    /\ UNCHANGED <<release, nvars>>

\* lines 249-260
NormalizeCrossSection ==
    /\ pc = "normalize"
    /\ ~is_panel
    /\ aggregation_method' = "Single Period"
    /\ df_clean' = DropNaIso3(Normalized(release,
                       [i \in 1..Len(df.rows) |->
                           AggRow(df.rows[i].country, Cell(df.rows[i], variable))]))
    /\ pc' = "report"
    /\ ran' = ran \cup {"normalize"}
    /\ UNCHANGED <<password, file, df, variable, is_panel, df_aggregated,
                   unresolved, rendered, messages>>
    /\ UNCHANGED <<release, nvars>>

\* lines 262-269
ReportUnresolved ==
    /\ pc = "report"
    /\ unresolved' = UnresolvedOf(df_clean)
    /\ IF UnresolvedOf(df_clean) # <<>>
       THEN Say("unrecognized_countries")
       ELSE UNCHANGED messages
    /\ pc' = "empty_check"
    /\ ran' = ran \cup {"report"}
    /\ UNCHANGED <<password, file, df, variable, is_panel, aggregation_method, df_aggregated,
                   df_clean, rendered>>
    /\ UNCHANGED <<release, nvars>>

\* lines 271-275
EmptyCheck ==
    /\ pc = "empty_check"
    /\ IF df_clean = <<>>
       THEN /\ Say("no_valid_countries")
            /\ pc' = "stopped"
       ELSE /\ Say("mapped")
            /\ pc' = "render"
    /\ ran' = ran \cup {"empty_check"}
    /\ UNCHANGED <<password, file, df, variable, is_panel, aggregation_method, df_aggregated,
                   df_clean, unresolved, rendered>>
    /\ UNCHANGED <<release, nvars>>

\* lines 277-606: the map, the statistics and the ranking, all of df_clean
Render ==
    /\ pc = "render"
    /\ rendered' = {"map", "statistics", "ranking"}
    /\ pc' = "end"
    /\ ran' = ran \cup {"render"}
    /\ UNCHANGED <<password, file, df, variable, is_panel, aggregation_method, df_aggregated,
                   df_clean, unresolved, messages>>
    /\ UNCHANGED <<release, nvars>>

NIdle ==
    /\ name = <<>>
    /\ npc = "idle"
    /\ clean = <<>>
    /\ clean_lower = <<>>
    /\ idx = 0
    /\ best_match = 0
    /\ best_score = 0
    /\ result = Unresolved
    /\ consulted = {}

AIdle ==
    /\ pc = "idle"
    /\ password = ""
    /\ file = NoFile
    /\ df = [header |-> "", has_year |-> FALSE, rows |-> <<>>]
    /\ variable = "None"
    /\ is_panel = FALSE
    /\ aggregation_method = "None"
    /\ df_aggregated = <<>>
    /\ df_clean = <<>>
    /\ unresolved = <<>>
    /\ rendered = {}
    /\ messages = <<>>
    /\ ran = {}

Init ==
    /\ release \in Releases
    /\ NIdle
    /\ pc = "password"
    /\ password = ""
    /\ file = NoFile
    /\ df = [header |-> "", has_year |-> FALSE, rows |-> <<>>]
    /\ variable = "None"
    /\ is_panel = FALSE
    /\ aggregation_method = "None"
    /\ df_aggregated = <<>>
    /\ df_clean = <<>>
    /\ unresolved = <<>>
    /\ rendered = {}
    /\ messages = <<>>
    /\ ran = {}

Next ==
    \/ CheckPassword
    \/ Upload
    \/ LoadFile
    \/ FindCountryColumn
    \/ SelectVariable
    \/ Aggregate
    \/ NormalizePanel
    \/ NormalizeCrossSection
    \/ ReportUnresolved
    \/ EmptyCheck
    \/ Render

Spec == Init /\ [][Next]_vars

---------------------------------------------------------------------------
(* normalize_country, statement by statement.  npc names the line about to *)
(* run, or the return statement that ended the call.                       *)

Returns == {"return21", "return61", "return68", "return92", "return94"}

\* line 20-21
CheckBlank ==
    /\ npc = "line20"
    /\ IF IsBlank(name)
       THEN /\ result' = Unresolved
            /\ npc' = "return21"
       ELSE /\ npc' = "line24"
            /\ UNCHANGED result
    /\ UNCHANGED <<release, name, clean, clean_lower, idx, best_match, best_score, consulted>>
    /\ UNCHANGED avars

\* lines 24-26 and 57
CleanInput ==
    /\ npc = "line24"
    /\ clean' = Clean(name)
    /\ clean_lower' = CleanLower(Clean(name))
    /\ npc' = "line58"
    /\ UNCHANGED <<release, name, idx, best_match, best_score, result, consulted>>
    /\ UNCHANGED avars

\* lines 58-63
TryOverride ==
    /\ npc = "line58"
    /\ consulted' = consulted \cup {"overrides"}
    /\ IF OverrideHit(clean_lower) /\ OverrideEntry(release, clean_lower) # 0
       THEN /\ result' = Triple(Countries(release)[OverrideEntry(release, clean_lower)])
            /\ npc' = "return61"
       ELSE /\ npc' = "line66"
            /\ UNCHANGED result
    /\ UNCHANGED <<release, name, clean, clean_lower, idx, best_match, best_score>>
    /\ UNCHANGED avars

\* lines 66-74
TryLookup ==
    /\ npc = "line66"
    /\ consulted' = consulted \cup {"lookup"}
    /\ IF Lookup(release, clean) # 0
       THEN /\ result' = Triple(Countries(release)[Lookup(release, clean)])
            /\ npc' = "return68"
            /\ UNCHANGED <<idx, best_match, best_score>>
       ELSE /\ best_match' = 0
            /\ best_score' = 0
            /\ idx' = 1
            /\ npc' = "line76"
            /\ UNCHANGED result
    /\ UNCHANGED <<release, name, clean, clean_lower>>
    /\ UNCHANGED avars

\* lines 76-88, one iteration
FuzzyIteration ==
    /\ npc = "line76"
    /\ idx <= Len(Countries(release))
    /\ consulted' = consulted \cup {"fuzzy"}
    /\ LET best == FuzzyStep(release, clean_lower, idx, <<best_match, best_score>>)
       IN  /\ best_match' = best[1]
           /\ best_score' = best[2]
    /\ idx' = idx + 1
    /\ UNCHANGED <<release, name, npc, clean, clean_lower, result>>
    /\ UNCHANGED avars

\* lines 91-94
FuzzyReturn ==
    /\ npc = "line76"
    /\ idx > Len(Countries(release))
    /\ result' = FuzzyResult(release, <<best_match, best_score>>)
    /\ npc' = IF Accept(<<best_match, best_score>>) THEN "return92" ELSE "return94"
    /\ UNCHANGED <<release, name, clean, clean_lower, idx, best_match, best_score, consulted>>
    /\ UNCHANGED avars

---------------------------------------------------------------------------
(* The arguments normalize_country is called with *)

MaxPad == 1

UpperChar(c) ==
    IF \E i \in 1..Len(LowerCase) : LowerCase[i] = c
    THEN UpperCase[CHOOSE i \in 1..Len(LowerCase) : LowerCase[i] = c]
    ELSE c

RECURSIVE Upper(_)
Upper(s) == IF s = <<>> THEN <<>> ELSE <<UpperChar(Head(s))>> \o Upper(Tail(s))

Capitalised(s) == IF s = <<>> THEN <<>> ELSE <<UpperChar(Head(s))>> \o Tail(s)

RECURSIVE Spaces(_)
Spaces(k) == IF k = 0 THEN <<>> ELSE <<" ">> \o Spaces(k - 1)

\* a text in the letter cases and with the surrounding whitespace tried
Variants(s) ==
    {Spaces(k) \o t \o Spaces(k) : k \in 0..MaxPad, t \in {s, Upper(s), Capitalised(s)}}

RegistryNames ==
    {CountriesOld[i].name : i \in 1..Len(CountriesOld)}
        \cup {CountriesNew[i].name : i \in 1..Len(CountriesNew)}
        \cup {CountriesOld[i].common_name : i \in 1..Len(CountriesOld)}

\* texts no override key and no registry attribute equals
OtherTexts ==
    {Chars("fran"), Chars("frnce"), Chars("frxnc"), Chars("u.s."), Chars("atlantis"), Chars("slovia"),
     Chars("zz"), Chars("t") \o <<u_diaeresis>> \o Chars("rkey")}

\* registry attributes other than names
CodeTexts == {Chars("fr"), Chars("fra"), Chars("250"), Chars("french republic")}

BlankTexts ==
    {Spaces(k) : k \in 0..(MaxPad + 1)} \cup {<<"\t">>, <<NBSP>>, <<" ", NBSP, "\t">>}

Inputs ==
    {NaN} \cup BlankTexts \cup {<<ZWSP>>, <<BOM>> \o Chars("France"), Chars("Viet") \o <<NBSP, NBSP>> \o Chars("Nam")}
        \cup UNION {Variants(s) : s \in OverrideKeys \cup OtherTexts \cup CodeTexts}
        \cup (RegistryNames \ {<<>>})

NInit ==
    /\ release \in Releases
    /\ name \in Inputs
    /\ npc = "line20"
    /\ clean = <<>>
    /\ clean_lower = <<>>
    /\ idx = 0
    /\ best_match = 0
    /\ best_score = 0
    /\ result = Unresolved
    /\ consulted = {}
    /\ AIdle

NNext ==
    \/ CheckBlank
    \/ CleanInput
    \/ TryOverride
    \/ TryLookup
    \/ FuzzyIteration
    \/ FuzzyReturn

SpecNormalize == NInit /\ [][NNext]_vars

\* the statement-by-statement run returns what the function returns
StepsAgree == npc \in Returns => result = normalize_country(release, name)

---------------------------------------------------------------------------
(* Properties of normalize_country, checked under SpecNormalize *)

Done == npc \in Returns

Code(a3) == Chars(a3)

WhitespaceOnly(n) == n # NaN /\ \A i \in 1..Len(n) : IsSpace(n[i])

\* the text as the caller wrote it, letter case and surrounding whitespace aside
Folded(n) == Lower(Strip(n))

\* some indexed attribute of some entry equals the text, letter case aside
ExactMatch(rel, text) ==
    /\ text # <<>>
    /\ \E i \in 1..Len(Index(rel)) : \E f \in 1..Len(Index(rel)[i]) :
           Index(rel)[i][f] = Lower(text)

\* the similarity of a text to an entry: to its name or its common name
EntryScore(rel, cl, i) ==
    Max(ratio(cl, Index(rel)[i][3]),
        IF Countries(rel)[i].common_name # <<>> THEN ratio(cl, Index(rel)[i][6]) ELSE 0)

MaxScore(rel, cl) ==
    LET scores == {EntryScore(rel, cl, i) : i \in 1..Len(Countries(rel))}
    IN  CHOOSE m \in scores : \A x \in scores : m >= x

\* the call got past the override table and the exact lookup
FellThrough ==
    /\ Done
    /\ ~IsBlank(name)
    /\ clean_lower \notin OverrideKeys
    /\ ~ExactMatch(release, clean)

\* C1: a call returns (None, None, None) or the alpha-3 code, alpha-2 code
\* and name of one single registry entry
C1_UnresolvedOrOneEntry ==
    Done =>
        \/ result = <<None, None, None>>
        \/ \E i \in 1..Len(Countries(release)) :
               LET c == Countries(release)[i] IN result = <<c.alpha_3, c.alpha_2, c.name>>

C1_Witness == npc = "return92" /\ result[1] = Code("FRA") /\ name = Chars("frnce")

TurkeySpellings ==
    {Chars("turkey"), Chars("t") \o <<u_diaeresis>> \o Chars("rkiye"), Chars("turkiye")}

\* C2: "Turkey", "Türkiye" and "turkiye" in any letter case resolve to TUR
C2_TurkeySpellingsResolve ==
    (Done /\ Folded(name) \in TurkeySpellings) => result[1] = Code("TUR")

\* C3: every key of the override table, in any letter case and with
\* surrounding whitespace, resolves to the code the table maps it to
C3_OverrideKeysResolve ==
    (Done /\ Folded(name) \in OverrideKeys) => result[1] = OverrideCode(Folded(name))

\* C4: an empty, whitespace-only or NaN argument returns unresolved at once,
\* before the override table, the exact lookup and the fuzzy scan
C4_BlankReturnsAtOnce ==
    (Done /\ (name = NaN \/ WhitespaceOnly(name))) =>
        /\ result = Unresolved
        /\ npc = "return21"
        /\ consulted = {}

C4_Witness == npc = "return21" /\ name = <<" ", NBSP, "\t">> /\ result = Unresolved

\* C5 as stated: a text scoring below 80 against every name and common name
\* is unresolved
C5_LowScoreUnresolved ==
    (Done /\ MaxScore(release, clean_lower) < ScoreThreshold) => result = Unresolved

\* C5 amended: a text that is no override key and no exact registry match and
\* scores below 80 against every name and common name is unresolved
C5_LowScoreFallthroughUnresolved ==
    (FellThrough /\ MaxScore(release, clean_lower) < ScoreThreshold) => result = Unresolved

C5_Witness ==
    /\ FellThrough
    /\ name = Chars("frxnc")
    /\ MaxScore(release, clean_lower) = 73
    /\ result = Unresolved

\* the name pycountry holds for an alpha-3 code
CanonicalName(rel, a3) ==
    Countries(rel)[CHOOSE i \in 1..Len(Countries(rel)) : Countries(rel)[i].alpha_3 = a3].name

\* C8: the name of every registry entry resolves to that entry's alpha-3
\* code, so the canonical name of a resolved code resolves to the same code
C8_RoundTrip ==
    Done =>
        /\ \A i \in 1..Len(Countries(release)) :
               name = Countries(release)[i].name => result[1] = Countries(release)[i].alpha_3
        /\ result # Unresolved =>
               normalize_country(release, CanonicalName(release, result[1]))[1] = result[1]

C8_Witness ==
    /\ Done
    /\ name = Reunion
    /\ consulted = {"overrides", "lookup", "fuzzy"}
    /\ result[1] = Code("REU")

\* C9: past the override table and the exact lookup, the result is the
\* best-scoring entry when its score is at least 80 and unresolved otherwise
C9_FuzzyThreshold ==
    FellThrough =>
        LET m == MaxScore(release, clean_lower) IN
        IF m >= ScoreThreshold
        THEN \E i \in 1..Len(Countries(release)) :
                 /\ result = <<Countries(release)[i].alpha_3, Countries(release)[i].alpha_2,
                               Countries(release)[i].name>>
                 /\ EntryScore(release, clean_lower, i) = m
        ELSE result = Unresolved

C9_Witness ==
    /\ FellThrough
    /\ name = Chars("fran")
    /\ best_score = ScoreThreshold
    /\ result[1] = Code("FRA")

---------------------------------------------------------------------------
(* Properties of the dashboard script, checked under Spec *)

Shown(msg) == msg \in Range(messages)

\* a row of the uploaded table whose country text normalize_country fails on
UnresolvedRow(r) == r.country # NaN /\ Resolve(release, r.country) = Unresolved

\* C6: once the unresolved countries have been reported, every country text
\* of the uploaded table that normalize_country fails on is in the list
\* shown, and the list is shown when there is such a row
C6_UnresolvedListed ==
    "report" \in ran =>
        /\ \A i \in 1..Len(df.rows) :
               UnresolvedRow(df.rows[i]) => df.rows[i].country \in Range(unresolved)
        /\ (\E i \in 1..Len(df.rows) : UnresolvedRow(df.rows[i]))
               => Shown("unrecognized_countries")

\* the sum of the selected column over rows, empty cells skipped
RECURSIVE CellSum(_, _)
CellSum(rows, column) ==
    IF rows = <<>> THEN 0
    ELSE (IF Cell(Head(rows), column).kind = "num" THEN Cell(Head(rows), column).v ELSE 0)
             + CellSum(Tail(rows), column)

\* the rows of the uploaded table whose country resolves to the code
ResolvingTo(code) == SelectSeq(df.rows, LAMBDA r : Resolve(release, r.country)[1] = code)

\* the rows ["USA", 10], ["U.S.", 20], ["Turkiye", 5]
C7_Example ==
    <<Row(Chars("USA"), 2020, Num(10)), Row(Chars("U.S."), 2020, Num(20)),
      Row(Chars("Turkiye"), 2021, Num(5))>>

\* C7: after "Total Sum", every alpha-3 code some uploaded row resolves to
\* has one row in the result, holding the sum over all rows resolving to it,
\* and no code has two rows; the three example rows give USA: 30 and TUR: 5
C7_SumMergesAliases ==
    ("normalize" \in ran /\ is_panel /\ aggregation_method = "Total Sum") =>
        /\ \A i, j \in 1..Len(df_clean) : df_clean[i].iso3 = df_clean[j].iso3 => i = j
        /\ \A k \in 1..Len(df.rows) :
               LET code == Resolve(release, df.rows[k].country)[1] IN
               code # None =>
                   \E i \in 1..Len(df_clean) :
                       /\ df_clean[i].iso3 = code
                       /\ df_clean[i].display = Num(CellSum(ResolvingTo(code), variable))
        /\ (df.rows = C7_Example /\ variable = "value") =>
               {<<df_clean[i].iso3, df_clean[i].display>> : i \in 1..Len(df_clean)}
                   = {<<Chars("USA"), Num(30)>>, <<Chars("TUR"), Num(5)>>}

LaterStages == {"select_variable", "aggregate", "normalize", "report", "empty_check", "render"}

\* C10: an unreadable file and a table without a 'country' column are
\* reported as errors, and after either error the run has stopped: no later
\* stage has run or will run, and nothing is rendered
C10_ErrorHalts ==
    /\ ("load" \in ran /\ ~file.readable) => Shown("error_loading_file")
    /\ ("find_country" \in ran /\ LowerHeader(file.header) # "country")
           => Shown("no_country_column")
    /\ (Shown("error_loading_file") \/ Shown("no_country_column")) =>
           /\ pc = "stopped"
           /\ ran \cap LaterStages = {}
           /\ variable = "None"
           /\ df_aggregated = <<>>
           /\ df_clean = <<>>
           /\ rendered = {}

C10_Witness ==
    /\ pc = "stopped"
    /\ file.header = "nation"
    /\ file.rows # <<>>
    /\ messages = <<"no_country_column">>

\* the rows of a table whose country normalize_country resolves
ResolvedRows(rows) == SelectSeq(rows, LAMBDA r : Resolve(release, r.country) # Unresolved)

RECURSIVE CrossRows(_, _)
CrossRows(rows, column) ==
    IF rows = <<>> THEN <<>>
    ELSE <<AggRow(Head(rows).country, Cell(Head(rows), column))>> \o CrossRows(Tail(rows), column)

\* df_clean as lines 237-260 compute it from the rows given
CleanFrom(rows) ==
    IF is_panel
    THEN DropNaIso3(Normalized(release, aggregate_data(rows, variable, aggregation_method)))
    ELSE DropNaIso3(Normalized(release, CrossRows(rows, variable)))

MixedValueColumn ==
    /\ \E i \in 1..Len(df.rows) : df.rows[i].value.kind = "num"
    /\ \E i \in 1..Len(df.rows) : df.rows[i].value.kind = "text"

\* the rows with every text of the 'value' column coerced to an empty cell
RECURSIVE Coerced(_)
Coerced(rows) ==
    IF rows = <<>> THEN <<>>
    ELSE <<[Head(rows) EXCEPT !.value = IF @.kind = "text" THEN NaNCell ELSE @]>>
             \o Coerced(Tail(rows))

\* C12: a 'value' column holding numbers together with a text is offered for
\* selection, the run does not stop for want of a numeric variable, and when
\* it is the selected variable df_clean is what the rows give with the text
\* cells left out
C12_NonNumericCoerced ==
    ("select_variable" \in ran /\ MixedValueColumn) =>
        /\ "value" \in Range(NumericCols(df))
        /\ ~Shown("no_numeric_variables")
        /\ ("normalize" \in ran /\ variable = "value") => df_clean = CleanFrom(Coerced(df.rows))

\* the distinct country strings of the upload
CountryStrings == {df.rows[i].country : i \in 1..Len(df.rows)} \ {NaN}

\* C15: whatever the aggregation method, the table aggregate_data returns
\* has exactly one row for each distinct country string of the upload
C15_OneRowPerCountry ==
    "aggregate" \in ran =>
        /\ {df_aggregated[i].country : i \in 1..Len(df_aggregated)} = CountryStrings
        /\ \A i, j \in 1..Len(df_aggregated) :
               df_aggregated[i].country = df_aggregated[j].country => i = j

---------------------------------------------------------------------------
(* Order of the resolution steps and ties of the fuzzy scan, checked under *)
(* SpecNormalize                                                           *)

\* the entry the override table names for the text, 0 when the text is no
\* key or the registry has no entry with the mapped code
OverrideWould(rel, cl) ==
    IF cl \in OverrideKeys /\ \E i \in 1..Len(Countries(rel)) :
                                  Countries(rel)[i].alpha_3 = OverrideCode(cl)
    THEN CHOOSE i \in 1..Len(Countries(rel)) : Countries(rel)[i].alpha_3 = OverrideCode(cl)
    ELSE 0

\* C13: the steps run in the order override table, exact lookup, fuzzy scan
\* and the first that succeeds returns: an override hit returns before the
\* lookup and the scan are consulted, an exact match returns before the scan
\* is consulted, and an override key whose code the registry lacks goes on
\* to the exact lookup
C13_FirstSuccessWins ==
    (Done /\ ~IsBlank(name)) =>
        IF OverrideWould(release, clean_lower) # 0
        THEN /\ npc = "return61"
             /\ consulted = {"overrides"}
             /\ result[1] = OverrideCode(clean_lower)
        ELSE /\ {"overrides", "lookup"} \subseteq consulted
             /\ IF ExactMatch(release, clean)
                THEN /\ npc = "return68"
                     /\ consulted = {"overrides", "lookup"}
                     /\ \E i \in 1..Len(Index(release)) :
                            /\ Lower(clean) \in Range(Index(release)[i])
                            /\ result[1] = Countries(release)[i].alpha_3
                ELSE /\ npc \in {"return92", "return94"}
                     /\ consulted = {"overrides", "lookup", "fuzzy"}

C13_Witness ==
    /\ Done
    /\ release = "trimmed"
    /\ name = Chars("Swaziland")
    /\ clean_lower \in OverrideKeys
    /\ OverrideWould(release, clean_lower) = 0
    /\ consulted = {"overrides", "lookup", "fuzzy"}
    /\ result = Unresolved

\* the similarity of the text to each entry, in registry order
RECURSIVE ScoresFrom(_, _, _)
ScoresFrom(rel, cl, i) ==
    IF i > Len(Countries(rel)) THEN <<>>
    ELSE <<EntryScore(rel, cl, i)>> \o ScoresFrom(rel, cl, i + 1)

\* the first position of the largest number of a sequence, 0 when all are 0
FirstBest(scores) ==
    LET top == CHOOSE m \in Range(scores) : \A x \in Range(scores) : m >= x
    IN  IF top = 0 THEN 0
        ELSE CHOOSE i \in 1..Len(scores) :
                 scores[i] = top /\ \A j \in 1..(i - 1) : scores[j] < top

\* C14: when the fuzzy scan ends, the best match is the first entry, in
\* registry order, that reaches the highest score: a later entry with an
\* equal score has not replaced it, and the entry returned is that first one
C14_FirstBestWins ==
    (npc \in {"return92", "return94"}) =>
        LET scores == ScoresFrom(release, clean_lower, 1)
            first == FirstBest(scores)
        IN  /\ best_match = first
            /\ first # 0 => best_score = scores[first]
            /\ npc = "return92" => result = <<Countries(release)[first].alpha_3,
                                              Countries(release)[first].alpha_2,
                                              Countries(release)[first].name>>

C14_Witness ==
    /\ npc = "return92"
    /\ name = Chars("slovia")
    /\ result[1] = Code("SVK")
    /\ Countries(release)[best_match + 1].alpha_3 = Code("SVN")
    /\ EntryScore(release, clean_lower, best_match + 1) = best_score
===========================================================================
